---------------------------- MODULE Spec2Model ----------------------------
(***************************************************************************)
(* PlanningBaselineV0 (main.py): the training and validation handlers of   *)
(* the trajectory-planning baseline.  training_step feeds the network's    *)
(* output to the multiple-trajectory-prediction (MTP) loss, logs the loss  *)
(* terms, draws a plot every tenth batch and returns the combined          *)
(* objective; validation_step computes the winner-trajectory L2 error and  *)
(* the best-match classification accuracy.                                 *)
(*                                                                         *)
(* Tensors are sequences (1-based); hypothesis indices keep the source's   *)
(* 0-based numbering.  Validation metrics are exact rationals [num, den];  *)
(* the loss terms, which contain a logarithm, are fixed-point numbers with *)
(* FracBits fractional bits.  Confidence logits are counted in units of    *)
(* ln 2, so that exp(logit) = 2^logit and the cross-entropy comes out in   *)
(* bits.                                                                   *)
(***************************************************************************)
EXTENDS Integers, Sequences, FiniteSets, TLC

VARIABLES M, num_pts, mtp_alpha, batch, batch_idx, step, locals, logged, ret, fig, ref

vars == <<M, num_pts, mtp_alpha, batch, batch_idx, step, locals, logged, ret, fig, ref>>

(* ------------------------------ bounds -------------------------------- *)
MaxM == 3
MaxB == 2
NumPts == 2
MaxCells == 4
FracBits == 10

(* ------------------------- program constants -------------------------- *)
Axes == 3
PlotEvery == 10
PlotHyps == 3

Scale == 2 ^ FracBits

(* ---------------------------- input space ----------------------------- *)
\* Per-step displacement of a straight path: <<forward, lateral, vertical>>.
Points == { <<1, 1, 0>>, <<2, 1, 0>>, <<1, 2, 1>> }
GTs == { <<2, 2, 0>>, <<2, 1, 0>> }
Alphas == { 1, 2 }
BatchIdxs == { 0, 7, 10 }

Line(p, n) == [k \in 1..n |-> <<k * p[1], k * p[2], k * p[3]>>]

\* The network's trajectory head is flat per example: M * num_pts * 3 numbers,
\* hypothesis-major, then point, then axis.
Flatten(hyps, m, n) ==
  [q \in 1..(m * n * Axes) |->
     hyps[((q - 1) \div (n * Axes)) + 1]
         [(((q - 1) % (n * Axes)) \div Axes) + 1]
         [((q - 1) % Axes) + 1]]

Confs(m) == { [j \in 1..m |-> IF j = k THEN 1 ELSE 0] : k \in 0..m }

Examples(m, n) ==
  [ cls  : Confs(m),
    traj : { Flatten([j \in 1..m |-> Line(h[j], n)], m, n) : h \in [1..m -> Points] },
    pose : { Line(g, n) : g \in GTs } ]

MkBatch(ex) ==
  [ pred_cls        |-> [i \in DOMAIN ex |-> ex[i].cls],
    pred_trajectory |-> [i \in DOMAIN ex |-> ex[i].traj],
    future_poses    |-> [i \in DOMAIN ex |-> ex[i].pose] ]

Batches(m, n) ==
  UNION { { MkBatch(ex) : ex \in [1..b -> Examples(m, n)] } :
          b \in { c \in 1..MaxB : m * c <= MaxCells } }

\* A small stream of batches for runs that process several batches in turn.
StreamExamples(m, n) ==
  { [ cls  |-> [j \in 1..m |-> IF j = c THEN 1 ELSE 0],
      traj |-> Flatten([j \in 1..m |-> Line(IF j = r THEN <<2, 1, 0>> ELSE <<1, 1, 0>>, n)], m, n),
      pose |-> Line(<<2, 2, 0>>, n) ] : r \in 0..1, c \in {1} }

StreamBatches(m, n) ==
  { MkBatch([i \in 1..b |-> e]) : e \in StreamExamples(m, n), b \in {1, MaxB} }

(* ------------------------- tensor primitives -------------------------- *)
RECURSIVE SumSeq(_)
SumSeq(s) == IF s = << >> THEN 0 ELSE s[1] + SumSeq(Tail(s))

Sq(x) == x * x

\* torch.argmin / torch.argmax: the index of the first extremal value.
ArgMax(s) ==
  (CHOOSE i \in 1..Len(s) :
      /\ \A j \in 1..Len(s) : s[i] >= s[j]
      /\ \A j \in 1..(i - 1) : s[j] < s[i]) - 1

\* Mutant of ArgMin: the last minimum instead of the first.
ArgMinLast(s) ==
  (CHOOSE i \in 1..Len(s) :
      /\ \A j \in 1..Len(s) : s[i] <= s[j]
      /\ \A j \in (i + 1)..Len(s) : s[j] > s[i]) - 1

\* Mutant of ArgMin: argmax in place of argmin.
ArgMinAsArgMax(s) == ArgMax(s)

ArgMin(s) ==
  (CHOOSE i \in 1..Len(s) :
      /\ \A j \in 1..Len(s) : s[i] <= s[j]
      /\ \A j \in 1..(i - 1) : s[j] > s[i]) - 1

\* pred_trajectory.reshape(-1, M, num_pts, 3)
Reshape(flat, m, n) ==
  [i \in DOMAIN flat |->
     [h \in 1..m |->
        [k \in 1..n |->
           [ax \in 1..Axes |-> flat[i][((h - 1) * n + (k - 1)) * Axes + ax]]]]]

\* Sum of squared differences of two trajectories over the points and the axes in axs.
SqErr(ta, tb, axs) ==
  SumSeq([k \in 1..Len(ta) |->
            SumSeq([ax \in 1..Axes |-> IF ax \in axs THEN Sq(ta[k][ax] - tb[k][ax]) ELSE 0])])


(* ------------------- validation_step (main.py 71-89) ------------------- *)
\* Mutant of PredLabel: the least confident hypothesis.
PredLabelArgMin(pred_cls) == [i \in DOMAIN pred_cls |-> ArgMin(pred_cls[i])]

\* pred_label = torch.argmax(pred_cls, -1)
PredLabel(pred_cls) == [i \in DOMAIN pred_cls |-> ArgMax(pred_cls[i])]

\* pred_trajectory[range(bs), pred_label, ...]
GatherHyp(pt, idx) == [i \in DOMAIN pt |-> pt[i][idx[i] + 1]]

\* F.mse_loss(a, b): the mean of the squared differences over all elements.
MseLoss(ta, tb, n) ==
  [ num |-> SumSeq([i \in DOMAIN ta |-> SqErr(ta[i], tb[i], 1..Axes)]),
    den |-> Len(ta) * n * Axes ]

\* Mutant of L2Distances: the squared error of the forward axis alone.
L2DistancesForwardOnly(pt, labels, m) ==
  [i \in DOMAIN pt |-> [h \in 1..m |-> SqErr(pt[i][h], labels[i], {1})]]

\* F.mse_loss(pred_trajectory, gt_trajectory_M, reduction='none').sum(dim=(2, 3))
L2Distances(pt, labels, m) ==
  [i \in DOMAIN pt |-> [h \in 1..m |-> SqErr(pt[i][h], labels[i], 1..Axes)]]

\* best_match = torch.argmin(l2_distances, -1)
BestMatch(l2_distances) == [i \in DOMAIN l2_distances |-> ArgMin(l2_distances[i])]

\* Mutant of ClsAcc: counts the examples that miss.
ClsAccMisses(best_match, pred_label, bs) ==
  [ num |-> Cardinality({ i \in DOMAIN best_match : best_match[i] # pred_label[i] }),
    den |-> bs ]

\* Mutant of ClsAcc: a running accuracy, accumulated over the validation calls.
ClsAccRunning(best_match, pred_label, bs) ==
  [ num |-> Cardinality({ i \in DOMAIN best_match : best_match[i] = pred_label[i] })
              + (IF step = "validation" THEN logged.cls_acc.num ELSE 0),
    den |-> bs + (IF step = "validation" THEN logged.cls_acc.den ELSE 0) ]

\* cls_acc = torch.sum(best_match == pred_label) / bs
ClsAcc(best_match, pred_label, bs) ==
  [ num |-> Cardinality({ i \in DOMAIN best_match : best_match[i] = pred_label[i] }),
    den |-> bs ]

\* The body of validation_step once pred_trajectory, pred_label and best_match
\* are computed.
ValidationOutputs(bs, pred_trajectory, pred_label, best_match, labels, n) ==
  [ l2_dist    |-> MseLoss(GatherHyp(pred_trajectory, pred_label), labels, n),
    cls_acc    |-> ClsAcc(best_match, pred_label, bs),
    pred_label |-> pred_label,
    best_match |-> best_match ]

ValidationWith(bs, pred_trajectory, pred_label, labels, m, n) ==
  ValidationOutputs(bs, pred_trajectory, pred_label,
                    BestMatch(L2Distances(pred_trajectory, labels, m)), labels, n)

ValidationMetrics(b, m, n) ==
  ValidationWith(Len(b.pred_cls), Reshape(b.pred_trajectory, m, n),
                 PredLabel(b.pred_cls), b.future_poses, m, n)

(* -------- MultipleTrajectoryPredictionLoss (model.py, per the spec) ---- *)
DistanceType == "angle"

\* atan2(lateral, forward) in tenths of a degree, for the directions of the
\* input space (the conditions do not depend on the length of <<x, y>>).
AtanTable(x, y) ==
  CASE x = 0 /\ y = 0 -> 0
    [] y = 0          -> 0
    [] x = 0          -> 900
    [] x = y          -> 450
    [] x = 2 * y      -> 266
    [] y = 2 * x      -> 634

\* Heading of a point relative to the origin, in the horizontal plane.
Heading(p) == AtanTable(p[1], p[2])

\* Sum of squared heading differences.
AngleDistance(ta, tb) ==
  SumSeq([k \in 1..Len(ta) |-> Sq(Heading(ta[k]) - Heading(tb[k]))])

L2Distance(ta, tb) == SqErr(ta, tb, 1..Axes)

Distance(type, ta, tb) ==
  IF type = "angle" THEN AngleDistance(ta, tb) ELSE L2Distance(ta, tb)

\* Best-hypothesis selector: first minimum of the distances to the ground truth.
BestIdx(pt, labels, m, type) ==
  [i \in DOMAIN pt |-> ArgMin([h \in 1..m |-> Distance(type, pt[i][h], labels[i])])]

RECURSIVE IntLog2(_)
IntLog2(s) == IF s < 2 THEN 0 ELSE 1 + IntLog2(s \div 2)

\* The fractional bits of log2(x / Scale) for Scale <= x < 2 * Scale.
RECURSIVE FracLog2(_, _)
FracLog2(x, bit) ==
  IF bit = 0 THEN 0
  ELSE LET y == (x * x) \div Scale
       IN  IF y >= 2 * Scale
           THEN 2 ^ (bit - 1) + FracLog2(y \div 2, bit - 1)
           ELSE FracLog2(y, bit - 1)

\* log2(s) in fixed point.
Log2Fix(s) ==
  LET e == IntLog2(s)
  IN  e * Scale + FracLog2((s * Scale) \div (2 ^ e), FracBits)

\* -log(softmax(conf)[target]) in fixed point.
CrossEntropy(conf, target) ==
  Log2Fix(SumSeq([j \in DOMAIN conf |-> 2 ^ conf[j]])) - conf[target + 1] * Scale

\* Mean cross-entropy over the batch.
ClassificationLoss(pred_cls, best_idx) ==
  SumSeq([i \in DOMAIN pred_cls |-> CrossEntropy(pred_cls[i], best_idx[i])])
    \div Len(pred_cls)

\* Per-axis mean-squared error of the winning hypotheses, in fixed point.
RegressionLoss(winners, labels, n) ==
  [ax \in 1..Axes |->
     (Scale * SumSeq([i \in DOMAIN winners |-> SqErr(winners[i], labels[i], {ax})]))
       \div (Len(winners) * n)]

\* The two loss terms once the winners are selected.
LossTerms(pred_cls, pred_trajectory, labels, best_idx, n) ==
  [ cls_loss |-> ClassificationLoss(pred_cls, best_idx),
    reg_loss |-> RegressionLoss(GatherHyp(pred_trajectory, best_idx), labels, n),
    best_idx |-> best_idx ]

LossOn(pred_cls, pred_trajectory, labels, m, n, type) ==
  LossTerms(pred_cls, pred_trajectory, labels,
            BestIdx(pred_trajectory, labels, m, type), n)

MTPLoss(pred_cls, flat, labels, m, n, type) ==
  LossOn(pred_cls, Reshape(flat, m, n), labels, m, n, type)

(* -------------------- training_step (main.py 39-63) -------------------- *)
\* reg_loss.mean()
Mean3(reg_loss) == (reg_loss[1] + reg_loss[2] + reg_loss[3]) \div Axes

\* Mutant of Objective: mtp_alpha scales the whole sum.
ObjectiveAlphaOnBoth(cls_loss, reg_loss, alpha) == alpha * (cls_loss + Mean3(reg_loss))

\* Mutant of Objective: mtp_alpha is left out.
ObjectiveWithoutAlpha(cls_loss, reg_loss, alpha) == cls_loss + Mean3(reg_loss)

\* cls_loss + self.mtp_alpha * reg_loss.mean()
Objective(cls_loss, reg_loss, alpha) == cls_loss + alpha * Mean3(reg_loss)

\* if batch_idx % 10 == 0
PlotDue(idx) == idx % PlotEvery = 0

\* pred_trajectory[0, h, :, 1] and pred_cls[0, h] for h = 0, 1, 2: an index past
\* the M hypotheses raises IndexError.
PlotRaises(m) == \E h \in 0..(PlotHyps - 1) : h >= m

TrainingStep(b, idx) ==
  \E loss \in {MTPLoss(b.pred_cls, b.pred_trajectory, b.future_poses, M, num_pts, DistanceType)} :
  LET raises == PlotDue(idx) /\ PlotRaises(M)
  IN  /\ batch' = b
      /\ batch_idx' = idx
      /\ step' = "training"
      /\ locals' = [ best_idx |-> loss.best_idx ]
      /\ logged' = [ cls |-> loss.cls_loss,
                     reg |-> Mean3(loss.reg_loss),
                     reg_x |-> loss.reg_loss[1],
                     reg_y |-> loss.reg_loss[2],
                     reg_z |-> loss.reg_loss[3] ]
      /\ fig' = (PlotDue(idx) /\ ~raises)
      /\ ret' = IF raises
                THEN [kind |-> "IndexError", value |-> 0]
                ELSE [kind |-> "returned",
                      value |-> Objective(loss.cls_loss, loss.reg_loss, mtp_alpha)]
      /\ UNCHANGED <<M, num_pts, mtp_alpha>>

ValidationStep(b, idx) ==
  \E v \in {ValidationMetrics(b, M, num_pts)} :
      /\ batch' = b
      /\ batch_idx' = idx
      /\ step' = "validation"
      /\ locals' = [ pred_label |-> v.pred_label, best_match |-> v.best_match ]
      /\ logged' = [ l2_dist |-> v.l2_dist, cls_acc |-> v.cls_acc ]
      /\ fig' = FALSE
      /\ ret' = [kind |-> "None", value |-> 0]
      /\ UNCHANGED <<M, num_pts, mtp_alpha>>

(* --------------------------- specifications --------------------------- *)
NoRef ==
  [ step |-> "none", cfg |-> <<0, 0, 0>>, batch |-> << >>, batch_idx |-> 0,
    logged |-> << >>, ret |-> [kind |-> "none", value |-> 0] ]

Snapshot ==
  [ step |-> step, cfg |-> <<M, num_pts, mtp_alpha>>, batch |-> batch,
    batch_idx |-> batch_idx, logged |-> logged, ret |-> ret ]

Construct ==
  /\ M \in 1..MaxM
  /\ num_pts = NumPts
  /\ mtp_alpha \in Alphas
  /\ batch_idx = 0
  /\ step = "none"
  /\ locals = << >>
  /\ logged = << >>
  /\ ret = [kind |-> "none", value |-> 0]
  /\ fig = FALSE
  /\ ref = NoRef

\* One batch, drawn from the whole input space, handed once to one handler.
Init == Construct /\ batch \in Batches(M, num_pts)

Train ==
  /\ step = "none"
  /\ \E idx \in BatchIdxs : TrainingStep(batch, idx) /\ UNCHANGED ref

Validate ==
  /\ step = "none"
  /\ \E idx \in BatchIdxs : ValidationStep(batch, idx) /\ UNCHANGED ref

Next == Train \/ Validate

Spec == Init /\ [][Next]_vars

\* A stream of batches; ref keeps one earlier invocation to compare against.
Remember == ref' \in IF step = "none" THEN {ref} ELSE {ref, Snapshot}

InitStream == Construct /\ batch \in StreamBatches(M, num_pts)

StreamTrain ==
  \E b \in StreamBatches(M, num_pts), idx \in BatchIdxs : TrainingStep(b, idx) /\ Remember

StreamValidate ==
  \E b \in StreamBatches(M, num_pts), idx \in BatchIdxs : ValidationStep(b, idx) /\ Remember

NextStream == StreamTrain \/ StreamValidate

SpecStream == InitStream /\ [][NextStream]_vars

(* ------------------------------ properties ---------------------------- *)
\* The quantities the properties speak of, read off the batch as the network
\* and the dataset delivered it (flat trajectory head, 0-based hypotheses).
B == Len(batch.pred_cls)

Hyps == 0..(M - 1)

FlatAt(i, h, k, ax) == batch.pred_trajectory[i][(h * num_pts + (k - 1)) * Axes + ax]

AxisSqErr(i, h, ax) ==
  SumSeq([k \in 1..num_pts |-> Sq(FlatAt(i, h, k, ax) - batch.future_poses[i][k][ax])])

HypSqErr(i, h) == AxisSqErr(i, h, 1) + AxisSqErr(i, h, 2) + AxisSqErr(i, h, 3)

MinSqErr(i) ==
  CHOOSE d \in { HypSqErr(i, h) : h \in Hyps } : \A h \in Hyps : d <= HypSqErr(i, h)

FirstMinL2(i) ==
  CHOOSE h \in Hyps :
    /\ HypSqErr(i, h) = MinSqErr(i)
    /\ \A g \in 0..(h - 1) : HypSqErr(i, g) > MinSqErr(i)

FirstMaxConf(i) ==
  CHOOSE h \in Hyps :
    /\ \A g \in Hyps : batch.pred_cls[i][g + 1] <= batch.pred_cls[i][h + 1]
    /\ \A g \in 0..(h - 1) : batch.pred_cls[i][g + 1] < batch.pred_cls[i][h + 1]

Hits == { i \in 1..B : FirstMaxConf(i) = FirstMinL2(i) }

\* C1: the best-match index of validation_step lies in [0, M), no hypothesis of
\* the example is closer to the ground truth, and every hypothesis of a lower
\* index is strictly farther (the first minimum wins a tie).
C1_BestMatchFirstMinimum ==
  step = "validation" =>
    \A i \in 1..B :
      \A bm \in {locals.best_match[i]} :
        /\ bm \in Hyps
        /\ \A h \in Hyps : HypSqErr(i, bm) <= HypSqErr(i, h)
        /\ \A h \in 0..(bm - 1) : HypSqErr(i, h) > HypSqErr(i, bm)

\* A validated example whose minimum is attained by two hypotheses, the first
\* of them not being hypothesis 0.
C1_Witness ==
  /\ step = "validation"
  /\ \E i \in 1..B : \E h \in Hyps, g \in Hyps :
       /\ 0 < h /\ h < g
       /\ HypSqErr(i, h) = MinSqErr(i)
       /\ HypSqErr(i, g) = MinSqErr(i)
       /\ HypSqErr(i, 0) > MinSqErr(i)
       /\ locals.best_match[i] = h

\* C2: the best-match index validation_step computes equals, for every example,
\* the best_idx the configured MTP loss selects on the same batch.
C2_SameSelectorInLossAndMetric ==
  step = "validation" =>
    locals.best_match =
      MTPLoss(batch.pred_cls, batch.pred_trajectory, batch.future_poses,
              M, num_pts, DistanceType).best_idx

\* C3: cls_acc is the number of examples whose confidence argmax is the L2 best
\* match, over the batch size, and lies in [0, 1].
C3_ClsAccIsHitFraction ==
  step = "validation" =>
    /\ B >= 1
    /\ logged.cls_acc.den = B
    /\ logged.cls_acc.num = Cardinality(Hits)
    /\ 0 <= logged.cls_acc.num
    /\ logged.cls_acc.num <= logged.cls_acc.den

\* A batch of two examples of which exactly one is a hit.
C3_Witness ==
  /\ step = "validation"
  /\ B = 2
  /\ logged.cls_acc = [num |-> 1, den |-> 2]

\* C4: l2_dist is the mean-squared error of the hypotheses at the confidence
\* argmax, and an example whose confidence argmax is not its best match is not
\* counted in cls_acc.
C4_L2DistUsesPredictedWinner ==
  step = "validation" =>
    /\ logged.l2_dist.num = SumSeq([i \in 1..B |-> HypSqErr(i, FirstMaxConf(i))])
    /\ logged.l2_dist.den = B * num_pts * Axes
    /\ logged.cls_acc.num = B - Cardinality({ i \in 1..B : FirstMaxConf(i) # FirstMinL2(i) })

\* A single example whose confidence argmax is strictly farther from the ground
\* truth than its best match.
C4_Witness ==
  /\ step = "validation"
  /\ B = 1
  /\ FirstMaxConf(1) # FirstMinL2(1)
  /\ HypSqErr(1, FirstMaxConf(1)) > MinSqErr(1)
  /\ logged.cls_acc.num = 0
  /\ logged.l2_dist.num = HypSqErr(1, FirstMaxConf(1))

\* C5: the value training_step returns is the logged classification loss plus
\* mtp_alpha times the mean of the three logged regression losses; with
\* mtp_alpha doubled the regression contribution doubles and the
\* classification term stays.
C5_ObjectiveIsClsPlusAlphaReg ==
  (step = "training" /\ ret.kind = "returned") =>
    \A reg \in {<<logged.reg_x, logged.reg_y, logged.reg_z>>} :
      \A mean \in {(reg[1] + reg[2] + reg[3]) \div 3} :
        /\ logged.reg = mean
        /\ ret.value = logged.cls + mtp_alpha * mean
        /\ Objective(logged.cls, reg, 2 * mtp_alpha) - logged.cls
             = 2 * (ret.value - logged.cls)
        /\ Objective(logged.cls, reg, 0) = logged.cls

C5_Witness ==
  /\ step = "training"
  /\ ret.kind = "returned"
  /\ mtp_alpha = 2
  /\ logged.cls > 0
  /\ logged.reg > 0
  /\ B = 2

\* Relabeling of the hypotheses of every example by the permutation p.
Perms == { p \in [1..M -> 1..M] : \A a \in 1..M, c \in 1..M : a # c => p[a] # p[c] }

PermutedCls(p) == [i \in 1..B |-> [h \in 1..M |-> batch.pred_cls[i][p[h]]]]

PermutedFlat(p) ==
  [i \in 1..B |->
     [q \in 1..(M * num_pts * Axes) |->
        batch.pred_trajectory[i]
          [(p[((q - 1) \div (num_pts * Axes)) + 1] - 1) * num_pts * Axes
             + ((q - 1) % (num_pts * Axes)) + 1]]]

LossUnchangedBy(p) ==
  \A l \in {MTPLoss(PermutedCls(p), PermutedFlat(p), batch.future_poses,
                    M, num_pts, DistanceType)} :
    /\ l.cls_loss = logged.cls
    /\ l.reg_loss = <<logged.reg_x, logged.reg_y, logged.reg_z>>

\* Distance of hypothesis h of example i under the configured metric.
HypDist(i, h) ==
  Distance(DistanceType,
           [k \in 1..num_pts |-> [ax \in 1..Axes |-> FlatAt(i, h, k, ax)]],
           batch.future_poses[i])

SameHyp(i, h, g) ==
  /\ batch.pred_cls[i][h + 1] = batch.pred_cls[i][g + 1]
  /\ \A k \in 1..num_pts, ax \in 1..Axes : FlatAt(i, h, k, ax) = FlatAt(i, g, k, ax)

\* Every two hypotheses of an example that are both closest to the ground truth
\* have the same trajectory and the same confidence.
TiesAreDuplicates ==
  \A i \in 1..B : \A h \in Hyps, g \in Hyps :
    ((\A f \in Hyps : HypDist(i, h) <= HypDist(i, f) /\ HypDist(i, g) <= HypDist(i, f))
       => SameHyp(i, h, g))

\* C6 as stated: the classification loss and the per-axis regression loss that
\* training_step logs are those of the batch under every relabeling of its
\* hypotheses, ties at the minimal distance included.
C6_PermutationInvariant ==
  step = "training" => \A p \in Perms : LossUnchangedBy(p)

\* C6 amended: the same, for batches in which the hypotheses tied at the minimal
\* distance of an example are duplicates of one another.
C6_PermutationInvariantWithoutTies ==
  (step = "training" /\ TiesAreDuplicates) => \A p \in Perms : LossUnchangedBy(p)

\* Three hypotheses, the closest two being duplicates placed after a farther one.
C6_Witness ==
  /\ step = "training"
  /\ M >= 3
  /\ TiesAreDuplicates
  /\ \E i \in 1..B :
       /\ locals.best_idx[i] = 1
       /\ HypDist(i, 2) = HypDist(i, 1)
       /\ HypDist(i, 0) > HypDist(i, 1)
  /\ logged.reg > 0

\* C7: with a single hypothesis both selectors return index 0 for every example,
\* the classification loss is exactly 0 whatever the confidence, and a returned
\* objective is mtp_alpha times the mean regression loss.
C7_SingleHypothesis ==
  M = 1 =>
    /\ step = "validation" => \A i \in 1..B : locals.best_match[i] = 0
    /\ step = "training" =>
         /\ \A i \in 1..B : locals.best_idx[i] = 0
         /\ logged.cls = 0
         /\ ret.kind = "returned" =>
              ret.value = mtp_alpha * ((logged.reg_x + logged.reg_y + logged.reg_z) \div 3)

C7_Witness ==
  /\ M = 1
  /\ step = "training"
  /\ ret.kind = "returned"
  /\ mtp_alpha = 2
  /\ \E i \in 1..B : batch.pred_cls[i][1] # 0
  /\ ret.value > 0

C9_TrainingStepAlwaysReturns ==
  step = "training" => ret.kind = "returned"

\* C10: l2_dist times the number of elements is at least the sum of the
\* examples' minimal squared errors, with equality when cls_acc is 1.
C10_L2DistBoundedByBestMatch ==
  step = "validation" =>
    \A least \in {SumSeq([i \in 1..B |-> MinSqErr(i)])} :
      /\ logged.l2_dist.num * (B * num_pts * Axes) >= logged.l2_dist.den * least
      /\ (logged.cls_acc.num = logged.cls_acc.den) =>
           logged.l2_dist.num * (B * num_pts * Axes) = logged.l2_dist.den * least

\* Two examples, both hits, with a positive error left.
C10_Witness ==
  /\ step = "validation"
  /\ B = 2
  /\ M >= 2
  /\ logged.cls_acc.num = logged.cls_acc.den
  /\ logged.l2_dist.num > 0
  /\ \E i \in 1..B : FirstMinL2(i) # 0

=============================================================================
